---- MODULE Spec2Model ----
(***************************************************************************)
(* Model of the Anchor program `voting` (programs/voting/src/lib.rs).      *)
(*                                                                         *)
(* The program has two instructions, initialize_voting and vote.  Each is  *)
(* executed by the Solana runtime as one transaction: the Anchor account   *)
(* validation generated from the #[derive(Accounts)] struct runs first,    *)
(* then the handler body, then the accounts are serialised back.  Any      *)
(* error aborts the transaction and none of its writes is kept.            *)
(* Transactions that write the same account are serialised by the runtime  *)
(* (both instructions write the voting account), so a transaction is one   *)
(* atomic step here and concurrency is the order in which submitted        *)
(* transactions are executed.                                              *)
(*                                                                         *)
(* Abstractions: a String is modelled by its length in bytes; a Pubkey of  *)
(* a signer is an opaque value; the hash behind find_program_address is    *)
(* modelled as injective on the concatenated seeds; payers are funded.     *)
(***************************************************************************)
EXTENDS Integers, Sequences, FiniteSets, TLC

VARIABLES
    accounts,   \* the account store: address -> account data, DOMAIN = occupied addresses
    txs         \* transactions with their outcome ("pending" while in flight)

vars == <<accounts, txs>>

----------------------------------------------------------------------------
(* Result names.  The program declares InvalidOptionsCount and            *)
(* InvalidOption; the other failures come from the framework and the      *)
(* system program and carry the names the specification gives them.       *)

Ok == "Ok"
InvalidOptionsCount == "InvalidOptionsCount"
InvalidOption == "InvalidOption"
\* system program: create_account on an occupied address (AccountAlreadyInUse)
TopicAlreadyExists == "TopicAlreadyExists"
AlreadyVoted == "AlreadyVoted"
\* Account<VotingAccount> on an address that holds no account (AccountNotInitialized)
TopicNotFound == "TopicNotFound"
\* Account::exit: the data does not fit the reserved space
AccountDidNotSerialize == "AccountDidNotSerialize"
\* Account<VotingAccount> on an account of another type
AccountDiscriminatorMismatch == "AccountDiscriminatorMismatch"
Pending == "pending"

----------------------------------------------------------------------------
(* Address derivation.                                                     *)

RECURSIVE LeBytes(_, _)
LeBytes(x, n) == IF n = 0 THEN <<>> ELSE <<x % 256>> \o LeBytes(x \div 256, n - 1)

RECURSIVE MinimalBytes(_)
MinimalBytes(x) == IF x = 0 THEN <<>> ELSE <<x % 256>> \o MinimalBytes(x \div 256)

\* mutant: only the significant bytes, so the width depends on the value
ToMinimalBytes(x) == MinimalBytes(x)

\* u64::to_le_bytes: eight bytes, least significant first
to_le_bytes(x) == LeBytes(x, 8)

\* The PDA of a seed list: a hash of the concatenated seeds, modelled as
\* injective on them.
find_program_address(seeds) == [pda |-> seeds]

\* seeds = [b"voting", company_id.to_le_bytes(), voting_id.to_le_bytes()]
VotingPda(company_id, voting_id) ==
    find_program_address(<<"voting">> \o to_le_bytes(company_id) \o to_le_bytes(voting_id))

\* mutant: the voter's key is left out of the seeds
VotePdaNoVoter(voting_key, voter_key) ==
    find_program_address(<<"vote", voting_key>>)

\* seeds = [b"vote", voting.key(), voter.key()]
VotePda(voting_key, voter_key) ==
    find_program_address(<<"vote", voting_key, voter_key>>)

----------------------------------------------------------------------------
(* Account data and sizes.                                                 *)

VotingAccount(company_id, voting_id, question, options, votes, total_votes) ==
    [kind |-> "VotingAccount", company_id |-> company_id, voting_id |-> voting_id,
     question |-> question, options |-> options, votes |-> votes,
     total_votes |-> total_votes]

VoteAccount(voter, selected_option) ==
    [kind |-> "VoteAccount", voter |-> voter, selected_option |-> selected_option]

VotingAccountSPACE == 8 + 8 + 8 + (4 + 256) + (4 + (3 * (4 + 64))) + (4 + (3 * 8)) + 8

RECURSIVE SumSeq(_)
SumSeq(s) == IF s = <<>> THEN 0 ELSE Head(s) + SumSeq(Tail(s))

\* Borsh size of a VotingAccount behind its 8-byte discriminator: a String is
\* 4 + its bytes, a Vec is 4 + its elements.
SerializedSize(va) ==
    8 + 8 + 8 + (4 + va.question)
      + (4 + SumSeq([i \in 1..Len(va.options) |-> 4 + va.options[i]]))
      + (4 + 8 * Len(va.votes)) + 8

\* Account::exit writes the account back into the space reserved at creation.
Serializes(va) == SerializedSize(va) <= VotingAccountSPACE

Occupied(acc, address) == address \in DOMAIN acc

\* mutant: init_if_needed, an occupied address is taken over
InitIfNeeded(acc, address) == FALSE

\* mutant: only an occupied topic address is refused
InitFailsOnTopicsOnly(acc, address) ==
    Occupied(acc, address) /\ acc[address].kind = "VotingAccount"

\* #[account(init)]: the system program refuses to create an account at an
\* occupied address
InitFails(acc, address) == Occupied(acc, address)

\* the store with `data` written at `address`
Store(acc, address, data) ==
    [a \in DOMAIN acc \cup {address} |-> IF a = address THEN data ELSE acc[a]]

----------------------------------------------------------------------------
(* The two instructions, each as the whole transaction: the result and    *)
(* the store it leaves.                                                    *)

Outcome(result, acc) == [result |-> result, accounts |-> acc]

\* mutant: the counters always sized for three options
InitializeVotingBodyThreeCounters(company_id, voting_id, question, options) ==
    VotingAccount(company_id, voting_id, question, options, <<0, 0, 0>>, 0)

\* mutant: the question is not stored
InitializeVotingBodyNoQuestion(company_id, voting_id, question, options) ==
    VotingAccount(company_id, voting_id, 0, options, [i \in 1..Len(options) |-> 0], 0)

\* mutant: the two identifiers are stored in each other's field
InitializeVotingBodySwappedIds(company_id, voting_id, question, options) ==
    VotingAccount(voting_id, company_id, question, options,
                  [i \in 1..Len(options) |-> 0], 0)

\* the handler body of initialize_voting, on the freshly created account
InitializeVotingBody(company_id, voting_id, question, options) ==
    VotingAccount(company_id, voting_id, question, options,
                  [i \in 1..Len(options) |-> 0], 0)

\* mutant: no upper limit on the number of options
ValidOptionsCountNoMax(options) == Len(options) >= 2

ValidOptionsCount(options) == Len(options) >= 2 /\ Len(options) <= 3

InitializeVotingTx(acc, company_id, voting_id, question, options) ==
    LET voting_key == VotingPda(company_id, voting_id)
        va == InitializeVotingBody(company_id, voting_id, question, options)
    IN  IF InitFails(acc, voting_key)
            THEN Outcome(TopicAlreadyExists, acc)        \* #[account(init)]
        ELSE IF ~ValidOptionsCount(options)
            THEN Outcome(InvalidOptionsCount, acc)       \* require!
        ELSE IF ~Serializes(va)
            THEN Outcome(AccountDidNotSerialize, acc)    \* exit
        ELSE Outcome(Ok, Store(acc, voting_key, va))

\* mutant: off by one, the index len(options) passes
ValidOptionInclusive(voting, selected_option) == selected_option <= Len(voting.options)

ValidOption(voting, selected_option) == selected_option < Len(voting.options)

\* mutant: total_votes is not counted
VoteBodyNoTotal(voting, selected_option) ==
    [voting EXCEPT !.votes[selected_option + 1] = @ + 1]

\* mutant: the first option is counted whatever was selected
VoteBodyFirstOption(voting, selected_option) ==
    [voting EXCEPT !.votes[1] = @ + 1, !.total_votes = @ + 1]

\* the handler body of vote: the updated voting account
VoteBody(voting, selected_option) ==
    [voting EXCEPT !.votes[selected_option + 1] = @ + 1,
                   !.total_votes = @ + 1]

\* mutant: the option is validated before the vote account is created
VoteLoadedOptionFirst(acc, voting_key, voter, selected_option) ==
    LET vote_key == VotePda(voting_key, voter)
    IN  IF acc[voting_key].kind # "VotingAccount"
            THEN Outcome(AccountDiscriminatorMismatch, acc)
        ELSE IF ~ValidOption(acc[voting_key], selected_option)
            THEN Outcome(InvalidOption, acc)
        ELSE IF InitFails(acc, vote_key)
            THEN Outcome(AlreadyVoted, acc)
        ELSE Outcome(Ok,
                 Store(Store(acc, vote_key, VoteAccount(voter, selected_option)),
                       voting_key, VoteBody(acc[voting_key], selected_option)))

\* vote, once the voting account is loaded
VoteLoaded(acc, voting_key, voter, selected_option) ==
    LET vote_key == VotePda(voting_key, voter)
    IN  IF acc[voting_key].kind # "VotingAccount"
            THEN Outcome(AccountDiscriminatorMismatch, acc)
        ELSE IF InitFails(acc, vote_key)
            THEN Outcome(AlreadyVoted, acc)              \* #[account(init)]
        ELSE IF ~ValidOption(acc[voting_key], selected_option)
            THEN Outcome(InvalidOption, acc)             \* require!
        ELSE Outcome(Ok,
                 Store(Store(acc, vote_key, VoteAccount(voter, selected_option)),
                       voting_key, VoteBody(acc[voting_key], selected_option)))

\* mutant: a missing voting account is taken as an empty one (init_if_needed on
\* the voting account), so the option check is what fails
VoteTxInitIfNeeded(acc, company_id, voting_id, voter, selected_option) ==
    LET voting_key == VotingPda(company_id, voting_id)
    IN  IF ~Occupied(acc, voting_key)
            THEN Outcome(InvalidOption, acc)
        ELSE VoteLoaded(acc, voting_key, voter, selected_option)

VoteTx(acc, company_id, voting_id, voter, selected_option) ==
    LET voting_key == VotingPda(company_id, voting_id)
    IN  IF ~Occupied(acc, voting_key)
            THEN Outcome(TopicNotFound, acc)             \* Account<VotingAccount>
        ELSE VoteLoaded(acc, voting_key, voter, selected_option)

----------------------------------------------------------------------------
(* Calls.                                                                  *)

InitCall(company_id, voting_id, question, options) ==
    [op |-> "initialize_voting", company_id |-> company_id, voting_id |-> voting_id,
     question |-> question, options |-> options]

VoteCall(company_id, voting_id, voter, selected_option) ==
    [op |-> "vote", company_id |-> company_id, voting_id |-> voting_id,
     voter |-> voter, selected_option |-> selected_option]

Execute(acc, call) ==
    IF call.op = "initialize_voting"
    THEN InitializeVotingTx(acc, call.company_id, call.voting_id,
                            call.question, call.options)
    ELSE VoteTx(acc, call.company_id, call.voting_id, call.voter,
                call.selected_option)

\* at: the transaction's place in the order of execution (0 while pending)
Tx(call, result, at) == [call |-> call, result |-> result, at |-> at]

----------------------------------------------------------------------------
(* Inputs.                                                                 *)

\* (company_id, voting_id) pairs; the two are each other's swap
TopicKeys == {<<1, 256>>, <<256, 1>>}
Voters == {"P1", "P2"}
\* u8 option indexes around the two legal option counts
SelectedOptions == {0, 1, 2, 3}
\* (question, options) by byte length: the option counts 1..4, a question over
\* 256 bytes with an option over 64, and the largest record that fits the
\* reserved space next to the smallest that does not
Shapes ==
    { <<1, <<1>>>>, <<1, <<1, 1>>>>, <<1, <<1, 1, 1, 1>>>>,
      <<257, <<65, 1>>>>,
      <<256, <<64, 64, 64>>>>, <<256, <<64, 64, 65>>>> }

InitCalls == { InitCall(k[1], k[2], s[1], s[2]) : k \in TopicKeys, s \in Shapes }
VoteCalls == { VoteCall(k[1], k[2], p, o) : k \in TopicKeys, p \in Voters,
                                           o \in SelectedOptions }

----------------------------------------------------------------------------
(* Spec: calls executed one after the other; txs holds the last one.      *)

Init == accounts = <<>> /\ txs = <<>>

Call(call) ==
    LET out == Execute(accounts, call)
    IN  /\ accounts' = out.accounts
        /\ txs' = <<Tx(call, out.result, 1)>>

initialize_voting == \E call \in InitCalls : Call(call)

vote == \E call \in VoteCalls : Call(call)

Next == initialize_voting \/ vote

Spec == Init /\ [][Next]_vars

----------------------------------------------------------------------------
(* SpecTx: transactions in flight.  Callers submit transactions at any    *)
(* time; the runtime executes the pending ones one at a time in any       *)
(* order.  txs is the log of everything submitted, in the order of        *)
(* submission, with the outcomes.                                          *)

MaxTxs == 3

TxTopicKeys == {<<1, 256>>}
TxShapes == { <<1, <<1, 1>>>>, <<1, <<1, 1, 1, 1>>>> }
TxSelectedOptions == {0, 1, 2}

TxInitCalls == { InitCall(k[1], k[2], s[1], s[2]) : k \in TxTopicKeys, s \in TxShapes }
TxVoteCalls == { VoteCall(k[1], k[2], p, o) : k \in TxTopicKeys, p \in Voters,
                                             o \in TxSelectedOptions }

Executed(log) == Cardinality({i \in DOMAIN log : log[i].result # Pending})

Submit(call) ==
    /\ Len(txs) < MaxTxs
    /\ txs' = Append(txs, Tx(call, Pending, 0))
    /\ UNCHANGED accounts

submit_initialize_voting == \E call \in TxInitCalls : Submit(call)

submit_vote == \E call \in TxVoteCalls : Submit(call)

Process(i) ==
    /\ txs[i].result = Pending
    /\ LET out == Execute(accounts, txs[i].call)
       IN  /\ accounts' = out.accounts
           /\ txs' = [txs EXCEPT ![i].result = out.result,
                                 ![i].at = Executed(txs) + 1]

process == \E i \in DOMAIN txs : Process(i)

NextTx == submit_initialize_voting \/ submit_vote \/ process

SpecTx == Init /\ [][NextTx]_vars

----------------------------------------------------------------------------
(* SpecAddr: address derivation alone.  Two derivation requests are drawn  *)
(* at the start (txs); the step derives both addresses and occupies them   *)
(* in the store.                                                           *)

AddrIds == {1, 256, 257}

DeriveRequest(ns, parts) == [op |-> "derive", ns |-> ns, parts |-> parts]

AddrRequests ==
    { DeriveRequest("voting", <<c, v>>) : c \in AddrIds, v \in AddrIds }
    \cup { DeriveRequest("vote", <<VotingPda(k[1], k[2]), p>>) :
               k \in TopicKeys, p \in Voters }

Derive(request) ==
    IF request.ns = "voting"
    THEN VotingPda(request.parts[1], request.parts[2])
    ELSE VotePda(request.parts[1], request.parts[2])

InitAddr ==
    /\ accounts = <<>>
    /\ txs \in { <<a, b>> : a \in AddrRequests, b \in AddrRequests }

derive ==
    /\ accounts = <<>>
    /\ accounts' = [a \in {Derive(txs[1]), Derive(txs[2])} |-> [kind |-> "Derived"]]
    /\ UNCHANGED txs

NextAddr == derive

SpecAddr == InitAddr /\ [][NextAddr]_vars

----------------------------------------------------------------------------
(* Vocabulary of the properties.                                           *)

Done(t) == t.result # Pending
IsInit(t) == t.call.op = "initialize_voting"
IsVote(t) == t.call.op = "vote"
VotingKeyOf(call) == VotingPda(call.company_id, call.voting_id)
VoteKeyOf(call) == VotePda(VotingKeyOf(call), call.voter)
SameTopic(c, d) == c.company_id = d.company_id /\ c.voting_id = d.voting_id
SamePair(c, d) == SameTopic(c, d) /\ c.voter = d.voter

VotingKeys == {a \in DOMAIN accounts : accounts[a].kind = "VotingAccount"}
VoteKeys == {a \in DOMAIN accounts : accounts[a].kind = "VoteAccount"}
\* the vote accounts derived from a voting account's address
VoteKeysOf(voting_key) == {a \in VoteKeys : a.pda[2] = voting_key}

\* j was submitted after i and ran before it: the two were in flight together
Overtaken(i, j) == i < j /\ txs[j].at < txs[i].at

\* the step of Spec executes a call; t is that call with its result
CallStep == txs' # <<>> /\ txs' # txs

----------------------------------------------------------------------------
OtherVotesOk(i) ==
    Cardinality({k \in DOMAIN txs :
        /\ IsVote(txs[k]) /\ txs[k].result = Ok
        /\ SameTopic(txs[k].call, txs[i].call)
        /\ txs[k].call.voter # txs[i].call.voter})

C2_Case(i, j) ==
    /\ i # j
    /\ IsVote(txs[i]) /\ IsVote(txs[j])
    /\ SamePair(txs[i].call, txs[j].call)
    /\ Done(txs[i]) /\ Done(txs[j])
    /\ txs[i].at < txs[j].at
    /\ txs[i].result # TopicNotFound /\ txs[j].result # TopicNotFound
    /\ VotingKeyOf(txs[i].call) \in VotingKeys
    /\ txs[i].call.selected_option < Len(accounts[VotingKeyOf(txs[i].call)].options)
    /\ txs[j].call.selected_option < Len(accounts[VotingKeyOf(txs[i].call)].options)
    /\ \A k \in DOMAIN txs :
           (IsVote(txs[k]) /\ SamePair(txs[k].call, txs[i].call)) => k \in {i, j}

C2_ConcurrentCasts ==
    \A i \in DOMAIN txs : \A j \in DOMAIN txs :
        C2_Case(i, j)
        => /\ txs[i].result = Ok
           /\ txs[j].result = AlreadyVoted
           /\ VoteKeyOf(txs[i].call) \in VoteKeys
           /\ accounts[VoteKeyOf(txs[i].call)].selected_option
                  = txs[i].call.selected_option
           /\ accounts[VotingKeyOf(txs[i].call)].total_votes - OtherVotesOk(i) = 1

\* two casts in flight together, the later submitted one executed first
C2_Witness ==
    \E i \in DOMAIN txs : \E j \in DOMAIN txs :
        /\ C2_Case(i, j)
        /\ Overtaken(j, i)
        /\ txs[i].call.selected_option # txs[j].call.selected_option
        /\ txs[j].result = AlreadyVoted

(* C3: every voting account has total_votes equal to the sum of its votes, *)
(* after successful and after failing calls alike.                         *)
C3_TotalIsSum ==
    \A a \in VotingKeys : accounts[a].total_votes = SumSeq(accounts[a].votes)

\* a topic with two votes, seen after a failing call
C3_Witness ==
    /\ txs # <<>> /\ txs[1].result # Ok
    /\ \E a \in VotingKeys : accounts[a].total_votes = 2

(* C4: for every topic and option index i, votes[i] is the number of vote  *)
(* accounts of that topic whose selected_option is i.                      *)
C4_TallyMatchesRecords ==
    \A a \in VotingKeys : \A i \in 1..Len(accounts[a].votes) :
        accounts[a].votes[i]
            = Cardinality({v \in VoteKeysOf(a) : accounts[v].selected_option = i - 1})

\* a topic whose two voters chose different options
C4_Witness ==
    \E a \in VotingKeys :
        /\ Cardinality(VoteKeysOf(a)) = 2
        /\ \E v \in VoteKeysOf(a) : \E w \in VoteKeysOf(a) :
               accounts[v].selected_option # accounts[w].selected_option

(* C5 as stated: a cast whose selected_option is not below the number of   *)
(* options of the (existing) topic fails with InvalidOption and changes    *)
(* nothing.                                                                *)
C5_Case ==
    /\ CallStep
    /\ IsVote(txs'[1])
    /\ VotingKeyOf(txs'[1].call) \in VotingKeys
    /\ txs'[1].call.selected_option >= Len(accounts[VotingKeyOf(txs'[1].call)].options)

InitOkBefore(i) ==
    \E j \in DOMAIN txs :
        /\ IsInit(txs[j]) /\ SameTopic(txs[j].call, txs[i].call)
        /\ txs[j].result = Ok /\ txs[j].at < txs[i].at

C6_InvalidOptionsCount ==
    /\ \A i \in DOMAIN txs :
           (IsInit(txs[i]) /\ Done(txs[i]) /\ ~InitOkBefore(i))
           => txs[i].result = IF Len(txs[i].call.options) \in {2, 3}
                              THEN Ok ELSE InvalidOptionsCount
    /\ \A k \in TxTopicKeys :
           (\A i \in DOMAIN txs :
                (IsInit(txs[i]) /\ txs[i].call.company_id = k[1]
                                /\ txs[i].call.voting_id = k[2])
                => txs[i].result # Ok)
           => VotingPda(k[1], k[2]) \notin DOMAIN accounts

\* a refused initialize followed by a successful one of the same pair
C6_Witness ==
    \E i \in DOMAIN txs : \E j \in DOMAIN txs :
        /\ IsInit(txs[i]) /\ IsInit(txs[j])
        /\ SameTopic(txs[i].call, txs[j].call)
        /\ txs[i].result = InvalidOptionsCount
        /\ txs[j].result = Ok
        /\ txs[i].at < txs[j].at
        /\ VotingKeyOf(txs[j].call) \in VotingKeys

(* C7: an initialize of a pair whose voting account exists fails with      *)
(* TopicAlreadyExists whatever question and options it passes, and leaves  *)
(* every account unchanged.                                                *)
C7_TopicAlreadyExists ==
    [][(/\ CallStep
        /\ IsInit(txs'[1])
        /\ VotingKeyOf(txs'[1].call) \in VotingKeys)
       => (txs'[1].result = TopicAlreadyExists /\ accounts' = accounts)]_vars

\* a refused re-initialize with other options, of a topic that has votes
C7_Witness ==
    /\ txs # <<>> /\ IsInit(txs[1])
    /\ txs[1].result = TopicAlreadyExists
    /\ VotingKeyOf(txs[1].call) \in VotingKeys
    /\ Len(txs[1].call.options) = 4
    /\ accounts[VotingKeyOf(txs[1].call)].total_votes > 0

(* C8: every voting account has as many counters as options, and 2 or 3    *)
(* options.                                                                *)
C8_CountersMatchOptions ==
    \A a \in VotingKeys :
        /\ Len(accounts[a].votes) = Len(accounts[a].options)
        /\ Len(accounts[a].options) >= 2
        /\ Len(accounts[a].options) <= 3

\* a topic of two options and a topic of three, both voted on
C8_Witness ==
    \E a \in VotingKeys : \E b \in VotingKeys :
        /\ Len(accounts[a].options) = 2 /\ accounts[a].total_votes > 0
        /\ Len(accounts[b].options) = 3 /\ accounts[b].total_votes > 0

(* C9: a cast by a participant who has a vote account on the topic fails   *)
(* with AlreadyVoted, and a cast failing with AlreadyVoted leaves every    *)
(* account unchanged: counters, total_votes and the recorded option.       *)
C9_AlreadyVotedChangesNothing ==
    [][(CallStep /\ IsVote(txs'[1]))
       => /\ VoteKeyOf(txs'[1].call) \in DOMAIN accounts
                => txs'[1].result = AlreadyVoted
          /\ txs'[1].result = AlreadyVoted => accounts' = accounts]_vars

\* a refused second cast naming another option of the topic
C9_Witness ==
    /\ txs # <<>> /\ IsVote(txs[1])
    /\ txs[1].result = AlreadyVoted
    /\ txs[1].call.selected_option < Len(accounts[VotingKeyOf(txs[1].call)].options)
    /\ txs[1].call.selected_option
           # accounts[VoteKeyOf(txs[1].call)].selected_option

(* C10: a cast executed before any initialize of its topic has succeeded   *)
(* fails with TopicNotFound; a vote account exists only for a pair with a  *)
(* successful cast; so the first cast of the pair executed after the topic *)
(* is created, naming one of its options, succeeds.                        *)
VoteOkBefore(i) ==
    \E j \in DOMAIN txs :
        /\ IsVote(txs[j]) /\ SamePair(txs[j].call, txs[i].call)
        /\ txs[j].result = Ok /\ txs[j].at < txs[i].at

C10_TopicNotFound ==
    \A i \in DOMAIN txs :
        (IsVote(txs[i]) /\ Done(txs[i]))
        => /\ ~InitOkBefore(i) => txs[i].result = TopicNotFound
           /\ VoteKeyOf(txs[i].call) \in DOMAIN accounts
                  => \E j \in DOMAIN txs :
                         /\ IsVote(txs[j]) /\ SamePair(txs[j].call, txs[i].call)
                         /\ txs[j].result = Ok
           /\ (/\ InitOkBefore(i)
               /\ ~VoteOkBefore(i)
               /\ txs[i].call.selected_option
                      < Len(accounts[VotingKeyOf(txs[i].call)].options))
              => txs[i].result = Ok

\* a cast refused with TopicNotFound and a later successful cast of the pair
C10_Witness ==
    \E i \in DOMAIN txs : \E j \in DOMAIN txs :
        /\ IsVote(txs[i]) /\ IsVote(txs[j])
        /\ SamePair(txs[i].call, txs[j].call)
        /\ txs[i].result = TopicNotFound
        /\ txs[j].result = Ok

(* C11: a successful initialize creates exactly one account, at the        *)
(* topic's address, which held none: it stores the given identifiers,      *)
(* question and options, one zero counter per option and total_votes 0,    *)
(* and every other account is left as it was.                              *)
C11_InitializeFrame ==
    [][(CallStep /\ IsInit(txs'[1]) /\ txs'[1].result = Ok)
       => LET call == txs'[1].call
              key == VotingKeyOf(call)
          IN  /\ key \notin DOMAIN accounts
              /\ DOMAIN accounts' = DOMAIN accounts \cup {key}
              /\ accounts'[key] =
                     [kind |-> "VotingAccount",
                      company_id |-> call.company_id, voting_id |-> call.voting_id,
                      question |-> call.question, options |-> call.options,
                      votes |-> [i \in 1..Len(call.options) |-> 0],
                      total_votes |-> 0]
              /\ \A a \in DOMAIN accounts : accounts'[a] = accounts[a]]_vars

\* a topic just created next to another topic that has votes
C11_Witness ==
    /\ txs # <<>> /\ IsInit(txs[1]) /\ txs[1].result = Ok
    /\ txs[1].call.question = 256
    /\ accounts[VotingKeyOf(txs[1].call)].votes = <<0, 0, 0>>
    /\ \E a \in VotingKeys : a # VotingKeyOf(txs[1].call) /\ accounts[a].total_votes = 2

(* C12: a successful cast of option k adds 1 to votes[k] and to            *)
(* total_votes of its topic, creates exactly one vote account holding      *)
(* {voter, k} at the pair's address, and leaves every other counter, every *)
(* other field of the topic and every other account as it was.             *)
C12_CastFrame ==
    [][(CallStep /\ IsVote(txs'[1]) /\ txs'[1].result = Ok)
       => LET call == txs'[1].call
              key == VotingKeyOf(call)
              vote_key == VoteKeyOf(call)
              k == call.selected_option + 1
          IN  /\ key \in VotingKeys
              /\ vote_key \notin DOMAIN accounts
              /\ DOMAIN accounts' = DOMAIN accounts \cup {vote_key}
              /\ accounts'[vote_key] =
                     [kind |-> "VoteAccount", voter |-> call.voter,
                      selected_option |-> call.selected_option]
              /\ Len(accounts'[key].votes) = Len(accounts[key].votes)
              /\ \A i \in 1..Len(accounts[key].votes) :
                     accounts'[key].votes[i]
                         = accounts[key].votes[i] + (IF i = k THEN 1 ELSE 0)
              /\ accounts'[key].total_votes = accounts[key].total_votes + 1
              /\ accounts'[key].kind = "VotingAccount"
              /\ accounts'[key].company_id = accounts[key].company_id
              /\ accounts'[key].voting_id = accounts[key].voting_id
              /\ accounts'[key].question = accounts[key].question
              /\ accounts'[key].options = accounts[key].options
              /\ \A a \in DOMAIN accounts \ {key} : accounts'[a] = accounts[a]]_vars

\* the second vote of a topic, for its last option, with another topic voted on
C12_Witness ==
    /\ txs # <<>> /\ IsVote(txs[1]) /\ txs[1].result = Ok
    /\ txs[1].call.selected_option = 2
    /\ accounts[VotingKeyOf(txs[1].call)].votes = <<1, 0, 1>>
    /\ \E a \in VotingKeys : a # VotingKeyOf(txs[1].call) /\ accounts[a].total_votes = 1

(* C13: a vote account, once created, is never deleted and never changes:  *)
(* every step keeps every existing vote account with its voter and         *)
(* selected_option.                                                        *)
C13_VoteRecordWriteOnce ==
    [][\A a \in VoteKeys :
           /\ a \in DOMAIN accounts'
           /\ accounts'[a] = accounts[a]]_vars

\* both voters have voted on a topic and one of them was just refused a re-vote
C13_Witness ==
    /\ txs # <<>> /\ IsVote(txs[1]) /\ txs[1].result = AlreadyVoted
    /\ Cardinality(VoteKeysOf(VotingKeyOf(txs[1].call))) = 2
    /\ accounts[VoteKeyOf(txs[1].call)].selected_option = 1
    /\ txs[1].call.selected_option = 0

(* C14: a voting account, once created, is never deleted; its identifiers, *)
(* question and options never change; its counters and total_votes never   *)
(* decrease, and change only in the step of a successful cast on that      *)
(* topic.                                                                  *)
C14_TopicRecordAppendOnly ==
    [][\A a \in VotingKeys :
           /\ a \in DOMAIN accounts'
           /\ accounts'[a].kind = "VotingAccount"
           /\ accounts'[a].company_id = accounts[a].company_id
           /\ accounts'[a].voting_id = accounts[a].voting_id
           /\ accounts'[a].question = accounts[a].question
           /\ accounts'[a].options = accounts[a].options
           /\ Len(accounts'[a].votes) = Len(accounts[a].votes)
           /\ \A i \in 1..Len(accounts[a].votes) :
                  accounts'[a].votes[i] >= accounts[a].votes[i]
           /\ accounts'[a].total_votes >= accounts[a].total_votes
           /\ (accounts'[a].votes # accounts[a].votes
                  \/ accounts'[a].total_votes # accounts[a].total_votes)
              => (/\ txs' # <<>> /\ IsVote(txs'[1]) /\ txs'[1].result = Ok
                  /\ VotingKeyOf(txs'[1].call) = a)]_vars

\* a topic with votes, just after a refused initialize of that topic
C14_Witness ==
    /\ txs # <<>> /\ IsInit(txs[1]) /\ txs[1].result = TopicAlreadyExists
    /\ Len(txs[1].call.options) = 2
    /\ accounts[VotingKeyOf(txs[1].call)].votes = <<1, 0, 1>>

C16_RecordedOptionInRange ==
    \A v \in VoteKeys :
        /\ v.pda[2] \in VotingKeys
        /\ accounts[v].selected_option < Len(accounts[v.pda[2]].options)

\* the last option recorded on a topic of two options and on one of three
C16_Witness ==
    \E v \in VoteKeys : \E w \in VoteKeys :
        /\ Len(accounts[v.pda[2]].options) = 2 /\ accounts[v].selected_option = 1
        /\ Len(accounts[w.pda[2]].options) = 3 /\ accounts[w].selected_option = 2

(* C17: every voting account has a question of at most 256 bytes and       *)
(* options of at most 64 bytes each.                                       *)
C17_BoundedStrings ==
    \A a \in VotingKeys :
        /\ accounts[a].question <= 256
        /\ \A i \in 1..Len(accounts[a].options) : accounts[a].options[i] <= 64

(* C19: a cast naming an option of an existing topic, by a voter with no   *)
(* vote account on that topic, succeeds whatever other voters have done on *)
(* the topic and whatever the voter has done on other topics.              *)
C19_Case ==
    /\ CallStep
    /\ IsVote(txs'[1])
    /\ VotingKeyOf(txs'[1].call) \in VotingKeys
    /\ txs'[1].call.selected_option < Len(accounts[VotingKeyOf(txs'[1].call)].options)
    /\ \A v \in VoteKeysOf(VotingKeyOf(txs'[1].call)) :
           accounts[v].voter # txs'[1].call.voter

C19_IndependentVotes ==
    [][C19_Case => txs'[1].result = Ok]_vars

\* a successful cast on a topic the other voter has voted on, by a voter who
\* has voted on the other topic
C19_Witness ==
    /\ txs # <<>> /\ IsVote(txs[1]) /\ txs[1].result = Ok
    /\ Cardinality(VoteKeysOf(VotingKeyOf(txs[1].call))) = 2
    /\ \E v \in VoteKeys :
           /\ v.pda[2] # VotingKeyOf(txs[1].call)
           /\ accounts[v].voter = txs[1].call.voter

(* C20: the account at the address derived from (company_id, voting_id)    *)
(* stores those two identifiers, and the account at the address derived    *)
(* from (voting address, voter) stores that voter; every account sits at   *)
(* the address derived from what it stores.                                *)
C20_ContentMatchesAddress ==
    /\ \A k \in TopicKeys :
           VotingPda(k[1], k[2]) \in DOMAIN accounts
           => /\ accounts[VotingPda(k[1], k[2])].kind = "VotingAccount"
              /\ accounts[VotingPda(k[1], k[2])].company_id = k[1]
              /\ accounts[VotingPda(k[1], k[2])].voting_id = k[2]
    /\ \A a \in VotingKeys :
           a = VotingPda(accounts[a].company_id, accounts[a].voting_id)
    /\ \A a \in VotingKeys : \A p \in Voters :
           VotePda(a, p) \in DOMAIN accounts
           => /\ accounts[VotePda(a, p)].kind = "VoteAccount"
              /\ accounts[VotePda(a, p)].voter = p
    /\ \A v \in VoteKeys :
           \E a \in VotingKeys : v = VotePda(a, accounts[v].voter)

\* both topics exist and both voters have voted on each
C20_Witness ==
    /\ Cardinality(VotingKeys) = 2
    /\ Cardinality(VoteKeys) = 4

(* C18: two derivation requests yield the same address exactly when they   *)
(* name the same namespace and the same key parts: distinct (company_id,   *)
(* voting_id) pairs have distinct topic addresses, distinct (topic         *)
(* address, voter) pairs have distinct vote addresses, and a topic address *)
(* is never a vote address.                                                *)
SameRequest(r, q) == r.ns = q.ns /\ r.parts = q.parts

C18_DerivationInjective ==
    accounts # <<>>
    => /\ Derive(txs[1]) \in DOMAIN accounts
       /\ Derive(txs[2]) \in DOMAIN accounts
       /\ Cardinality(DOMAIN accounts) = IF SameRequest(txs[1], txs[2]) THEN 1 ELSE 2

\* the addresses of (1, 257) and (257, 1), derived and distinct
C18_Witness ==
    /\ accounts # <<>>
    /\ txs[1].ns = "voting" /\ txs[2].ns = "voting"
    /\ txs[1].parts = <<1, 257>>
    /\ txs[2].parts = <<257, 1>>
    /\ Cardinality(DOMAIN accounts) = 2

====
